---------------------------- MODULE Spec2Model ----------------------------
(***************************************************************************)
(* The Router and Network reconcilers of the ndn operator                  *)
(* (src/src/crd/router.rs, src/src/crd/network.rs) over an object store.   *)
(*                                                                         *)
(* Strings are abstract: an object name, a label value and a face address  *)
(* are small integers, and two of them are the same string exactly when    *)
(* they are the same integer.  A Router named k and a Network named k      *)
(* carry the same name.  Option<T> is a sequence of length 0 (None) or 1   *)
(* (Some).  All objects live in one namespace.                             *)
(***************************************************************************)
EXTENDS Integers, Sequences, FiniteSets, TLC

\* ------------------------------------------------------------- bounds
MaxRouters == 3
MaxNets == 2
MaxAddr == 2

Routers == 1..MaxRouters          \* names of the Router objects
Nets == 1..MaxNets                \* names of the Network objects
Addr == 1..MaxAddr                \* face addresses

None == <<>>
Some(x) == <<x>>
OptionSet(o) == {o[k] : k \in DOMAIN o}

VARIABLES
    labels,     \* labels[r]: value of r's network.named-data.net/name label
    faces,      \* faces[r]: r.spec.faces, a RouterFaces record
    status,     \* status[r]: r.status, Option<RouterStatus>
    phase,      \* phase[r]: "Active", "Deleting" (deletion requested), "Gone"
    pc,         \* pc[r]: where the handler running for key r stands
    op,         \* op[r]: the handler that runs (or ran last) for key r
    listed,     \* listed[r]: the list response the running handler holds
    refused,    \* refused[r]: siblings whose status patch the store would refuse
    result,     \* result[r]: what the last handler of key r returned
    status0,    \* status0[r]: r.status before any handler ran
    trip,       \* the round trip observed (SpecRoundTrip only)
    pre,        \* status before the round trip's online step
    nwspec,     \* nwspec[n]: the Network's spec
    dsdata,     \* dsdata[n]: ds_data, the descriptor the running handler built
    ds,         \* ds[n]: Option<DaemonSet>, the stored workload named n
    nwstatus,   \* nwstatus[n]: Option<NetworkStatus>
    nwpc,       \* nwpc[n]: where Network::reconcile for key n stands
    nwresult,   \* nwresult[n]: what the last handler of key n returned
    nwfailed,   \* nwfailed[n]: a store call of that handler failed
    panicked,   \* the controller process has panicked
    nwphase,    \* nwphase[n]: "Active", "Deleting" (deletion requested), "Gone"
    nwop,       \* nwop[n]: the handler that runs (or ran last) for key n
    followed,   \* the Network whose life is followed (SpecNetworkLife only)
    changed,    \* changed[n]: an apply has replaced the workload after a spec change
    replay,     \* what the first pass of each handler left (SpecReplay only)
    evfail,     \* evfail.router / evfail.network: the last step of the followed
                \* object was an event publish that failed
    created     \* the last call of create_owned_router: its arguments and result

rvars == <<labels, faces, status, phase, pc, op, listed, refused, result>>
gvars == <<status0, trip, pre>>
nvars == <<nwspec, dsdata, ds, nwstatus, nwpc, nwresult, nwfailed, panicked>>
lvars == <<nwphase, nwop, followed, changed>>
vars == <<labels, faces, status, phase, pc, op, listed, refused, result,
          status0, trip, pre, nwspec, dsdata, ds, nwstatus, nwpc, nwresult, nwfailed,
          panicked, nwphase, nwop, followed, changed, replay, evfail, created>>

\* ------------------------------------------------------ resource model

RouterFaces(udp4, tcp4, udp6, tcp6) ==
    [udp4 |-> udp4, tcp4 |-> tcp4, udp6 |-> udp6, tcp6 |-> tcp6]

\* A derivation that leaves out the tcp6 slot.
to_btree_set_without_tcp6(f) ==
    OptionSet(f.udp4) \cup OptionSet(f.tcp4) \cup OptionSet(f.udp6)

\* RouterFaces::to_btree_set: the addresses of the slots that are Some.
to_btree_set(f) ==
    OptionSet(f.udp4) \cup OptionSet(f.tcp4) \cup OptionSet(f.udp6) \cup OptionSet(f.tcp6)

RouterStatus(online, neighbors) == [online |-> online, neighbors |-> neighbors]

\* The object's name as the string the label selector is built from.
name_any(r) == r

\* ------------------------------------------------------ the object store

\* api_router.list(&lp): the Routers of the namespace whose network label
\* equals the selector's value.  A Router whose deletion was requested is
\* still listed; an erased one is not.
list(value) == {r \in Routers : phase[r] # "Gone" /\ labels[r] = value}

\* lp of Router::reconcile and Router::cleanup: the label selector
\* "network.named-data.net/name=<self.name_any()>".
lp(self) == name_any(self)

\* The listed Routers that pass .filter(|router| router.name_any() != self.name_any()).
filter(self, items) == {r \in items : name_any(r) # name_any(self)}

\* What the store holds after an awaited merge patch of r's status
\* subresource: the patch document replaces online and neighbors; a patch
\* the store refuses changes nothing.
patch_status_awaited(st, r, doc, refuse) ==
    IF r \in refuse THEN st ELSE [st EXCEPT ![r] = Some(doc)]

\* `let _ = api_router.patch_status(..).map_err(Error::KubeError);` inside
\* the synchronous for_each closure: the future is built and dropped without
\* being polled, so no request reaches the store.
patch_status(st, r, doc, refuse) == st

\* current_neighbors of a listed router: status.neighbors, or the empty set
\* when the status is absent.
current_neighbors(st) == IF st = None THEN {} ELSE st[1].neighbors

\* A reconcile document that replaces the sibling's neighbors by self's
\* faces instead of adding them.
reconcile_status_replacing(self, st) ==
    RouterStatus(TRUE, to_btree_set(faces[self]))

\* The status document Router::reconcile builds for a listed sibling.
reconcile_status(self, st) ==
    RouterStatus(TRUE, current_neighbors(st) \cup to_btree_set(faces[self]))

\* The status document Router::cleanup builds for a listed sibling.
cleanup_status(self, st) ==
    RouterStatus(FALSE, current_neighbors(st) \ to_btree_set(faces[self]))

\* for_each over the filtered list: the status document of the handler
\* (reconcile or cleanup) and one patch_status per sibling, in the order of
\* the list (by name).
RECURSIVE for_each(_, _, _, _, _, _)
for_each(st, self, handler, todo, resp, refuse) ==
    IF todo = {} THEN st
    ELSE LET r == CHOOSE x \in todo : \A y \in todo : x <= y
             doc == IF handler = "reconcile" THEN reconcile_status(self, resp[r])
                    ELSE cleanup_status(self, resp[r])
         IN for_each(patch_status(st, r, doc, refuse), self, handler,
                     todo \ {r}, resp, refuse)

\* ------------------------------------------------------ Router handlers

\* Router::reconcile / Router::cleanup up to the first await: the list call.
\* The store answers with the matching objects as they are now, or fails
\* and the handler returns Err(KubeError) through `?`.
ListCall(self, handler) ==
    /\ pc[self] = "idle"
    /\ op' = [op EXCEPT ![self] = handler]
    /\ \E ok \in BOOLEAN :
        IF ok
        THEN /\ pc' = [pc EXCEPT ![self] = "listed"]
             /\ listed' = [listed EXCEPT ![self] =
                              [r \in list(lp(self)) |-> status[r]]]
             /\ result' = [result EXCEPT ![self] = "none"]
        ELSE /\ result' = [result EXCEPT ![self] = "Err"]
             /\ UNCHANGED <<pc, listed>>
    /\ UNCHANGED <<labels, faces, status, phase, refused>>

ReconcileList(self) ==
    /\ phase[self] = "Active"
    /\ ListCall(self, "reconcile")

CleanupList(self) ==
    /\ phase[self] = "Deleting"
    /\ ListCall(self, "cleanup")

\* The routers a running handler builds a status patch for: the list
\* response without self.
targets(self) == filter(self, DOMAIN listed[self])

\* The synchronous .iter().filter().for_each() over the list response.  The
\* store's answer to each patch (had it been sent) is an input: refuse is
\* the set of siblings whose patch it would refuse.
ForEach(self, handler) ==
    /\ pc[self] = "listed"
    /\ op[self] = handler
    /\ \E refuse \in SUBSET targets(self) :
        /\ status' = for_each(status, self, handler, targets(self), listed[self], refuse)
        /\ refused' = [refused EXCEPT ![self] = refuse]
    /\ pc' = [pc EXCEPT ![self] = "publish"]
    /\ UNCHANGED <<labels, faces, phase, op, listed, result>>

ReconcileForEach(self) == ForEach(self, "reconcile")

CleanupForEach(self) == ForEach(self, "cleanup")

\* Router::reconcile from the event on:
\* ctx.recorder.publish(..).await.map_err(Error::KubeError)?; Ok(Action::await_change()).
ReconcilePublish(self) ==
    /\ pc[self] = "publish"
    /\ op[self] = "reconcile"
    /\ pc' = [pc EXCEPT ![self] = "idle"]
    /\ listed' = [listed EXCEPT ![self] = <<>>]
    /\ refused' = [refused EXCEPT ![self] = {}]
    /\ \E ok \in BOOLEAN :
        result' = [result EXCEPT ![self] = IF ok THEN "Ok" ELSE "Err"]
    /\ UNCHANGED <<labels, faces, status, phase, op>>

\* Router::cleanup from the event on.  After Ok the finalizer marker is to
\* be removed.
CleanupPublish(self) ==
    /\ pc[self] = "publish"
    /\ op[self] = "cleanup"
    /\ listed' = [listed EXCEPT ![self] = <<>>]
    /\ refused' = [refused EXCEPT ![self] = {}]
    /\ \E ok \in BOOLEAN :
        /\ result' = [result EXCEPT ![self] = IF ok THEN "Ok" ELSE "Err"]
        /\ pc' = [pc EXCEPT ![self] = IF ok THEN "unmark" ELSE "idle"]
    /\ UNCHANGED <<labels, faces, status, phase, op>>

\* ---------------------------------------------- finalizer lifecycle (4.3)

\* A deletion request for an Active router, whose finalizer marker is present.
DeleteRequest(self) ==
    /\ phase[self] = "Active"
    /\ phase' = [phase EXCEPT ![self] = "Deleting"]
    /\ UNCHANGED <<labels, faces, status, pc, op, listed, refused, result>>

\* A lifecycle that removes the marker of a Deleting router without waiting
\* for its cleanup.
RemoveFinalizerEarly(self) ==
    /\ phase[self] = "Deleting"
    /\ pc[self] \in {"idle", "unmark"}
    /\ pc' = [pc EXCEPT ![self] = "idle"]
    /\ phase' = [phase EXCEPT ![self] = "Gone"]
    /\ UNCHANGED <<labels, faces, status, op, listed, refused, result>>

\* After cleanup returned Ok the marker is removed and the store erases the
\* object; a failed removal leaves it Deleting, and cleanup runs again.
RemoveFinalizer(self) ==
    /\ pc[self] = "unmark"
    /\ pc' = [pc EXCEPT ![self] = "idle"]
    /\ \E ok \in BOOLEAN :
        IF ok
        THEN /\ phase' = [phase EXCEPT ![self] = "Gone"]
             /\ UNCHANGED result
        ELSE /\ result' = [result EXCEPT ![self] = "Err"]
             /\ UNCHANGED phase
    /\ UNCHANGED <<labels, faces, status, op, listed, refused>>

\* ------------------------------------------------------ Network handlers

UDP_UNICAST_PORT == 6363

CONTAINER_CONFIG_DIR == "/etc/ndnd"
CONTAINER_SOCKET_DIR == "/run/ndnd"

\* format!("{}.yml", name) under CONTAINER_CONFIG_DIR, as the pieces of the path.
container_config_path(n) == <<CONTAINER_CONFIG_DIR, "/", n, ".yml">>

\* format!("{}.sock", name) under CONTAINER_SOCKET_DIR.
container_socket_path(n) == <<CONTAINER_SOCKET_DIR, "/", n, ".sock">>

\* self.controller_owner_ref(&()): the reference naming Network n as
\* controller-owner.
controller_owner_ref(n) == [kind |-> "Network", name |-> n, controller |-> TRUE]

\* A generator that copies the Network's current status into the workload.
create_owned_daemonset_stamped(n, image, service_account) ==
    LET lbl == [network |-> n]
    IN [name |-> n,
        owner_references |-> <<controller_owner_ref(n)>>,
        labels |-> lbl,
        selector |-> lbl,
        template_labels |-> lbl,
        service_account_name |-> service_account,
        host_network |-> TRUE,
        node_selector |-> nwspec[n].node_selector,
        init_image |-> image,
        init_command |-> <<"/init", "--output", container_config_path(n)>>,
        port |-> nwspec[n].udp_unicast_port,
        daemon_args |-> <<"daemon", container_config_path(n), nwstatus[n]>>,
        socket |-> container_socket_path(n),
        watch_image |-> image]

\* A generator that also labels the workload with the Network's port.
create_owned_daemonset_port_label(n, image, service_account) ==
    LET lbl == [network |-> n, port |-> nwspec[n].udp_unicast_port]
    IN [name |-> n,
        owner_references |-> <<controller_owner_ref(n)>>,
        labels |-> lbl,
        selector |-> lbl,
        template_labels |-> lbl,
        service_account_name |-> service_account,
        host_network |-> TRUE,
        node_selector |-> nwspec[n].node_selector,
        init_image |-> image,
        init_command |-> <<"/init", "--output", container_config_path(n)>>,
        port |-> nwspec[n].udp_unicast_port,
        daemon_args |-> <<"daemon", container_config_path(n)>>,
        socket |-> container_socket_path(n),
        watch_image |-> image]

\* Network::create_owned_daemonset: the descriptor of the workload of
\* Network n for the controller's image and service account.
create_owned_daemonset(n, image, service_account) ==
    LET lbl == [network |-> n]
    IN [name |-> n,
        owner_references |-> <<controller_owner_ref(n)>>,
        labels |-> lbl,
        selector |-> lbl,
        template_labels |-> lbl,
        service_account_name |-> service_account,
        host_network |-> TRUE,
        node_selector |-> nwspec[n].node_selector,
        init_image |-> image,
        init_command |-> <<"/init", "--output", container_config_path(n)>>,
        port |-> nwspec[n].udp_unicast_port,
        daemon_args |-> <<"daemon", container_config_path(n)>>,
        socket |-> container_socket_path(n),
        watch_image |-> image]

\* What get_my_pod can answer: an error, a pod without spec, a pod without
\* containers, or a pod whose first container and service account are read.
PodLookups ==
    {None, Some([spec |-> None])}
    \cup {Some([spec |-> Some([containers |-> cs, service_account_name |-> sa])]) :
            cs \in {<<>>, <<[image |-> None]>>, <<[image |-> Some("controller:1")]>>},
            sa \in {None, Some("operator")}}

\* Whether one of the three .expect() calls of Network::reconcile panics.
expect_fails(got) ==
    \/ got = None
    \/ got[1].spec = None
    \/ got[1].spec[1].containers = <<>>

\* Network::reconcile up to the descriptor: the self-pod lookup, unwrapped
\* with .expect(), and create_owned_daemonset.
NwGetMyPod(n) ==
    /\ ~panicked
    /\ nwpc[n] = "idle"
    /\ \E got \in PodLookups :
        IF expect_fails(got)
        THEN /\ panicked' = TRUE
             /\ nwresult' = [nwresult EXCEPT ![n] = "Panic"]
             /\ nwfailed' = [nwfailed EXCEPT ![n] = (got = None)]
             /\ UNCHANGED <<dsdata, nwpc>>
        ELSE /\ nwfailed' = [nwfailed EXCEPT ![n] = FALSE]
             /\ dsdata' = [dsdata EXCEPT ![n] = Some(create_owned_daemonset(n,
                               got[1].spec[1].containers[1].image,
                               got[1].spec[1].service_account_name))]
             /\ nwpc' = [nwpc EXCEPT ![n] = "apply"]
             /\ nwresult' = [nwresult EXCEPT ![n] = "none"]
             /\ UNCHANGED panicked
    /\ UNCHANGED <<nwspec, ds, nwstatus>>

\* A reconcile that goes on to the event without having the store apply
\* the workload.
NwApplySkipped(n) ==
    /\ ~panicked
    /\ nwpc[n] = "apply"
    /\ nwpc' = [nwpc EXCEPT ![n] = "event"]
    /\ UNCHANGED <<nwspec, dsdata, ds, nwstatus, nwresult, nwfailed, panicked>>

\* api_ds.patch(name, serverside, Patch::Apply(ds_data)).await.map_err(..)?
NwApply(n) ==
    /\ ~panicked
    /\ nwpc[n] = "apply"
    /\ \E ok \in BOOLEAN :
        IF ok
        THEN /\ ds' = [ds EXCEPT ![n] = dsdata[n]]
             /\ nwpc' = [nwpc EXCEPT ![n] = "event"]
             /\ UNCHANGED <<nwresult, nwfailed, dsdata>>
        ELSE /\ nwresult' = [nwresult EXCEPT ![n] = "Err"]
             /\ nwfailed' = [nwfailed EXCEPT ![n] = TRUE]
             /\ nwpc' = [nwpc EXCEPT ![n] = "idle"]
             /\ dsdata' = [dsdata EXCEPT ![n] = None]
             /\ UNCHANGED ds
    /\ UNCHANGED <<nwspec, nwstatus, panicked>>

\* A reconcile that takes back the workload it applied when the event
\* cannot be published.
NwPublishUndoing(n) ==
    /\ ~panicked
    /\ nwpc[n] = "event"
    /\ dsdata' = [dsdata EXCEPT ![n] = None]
    /\ \E ok \in BOOLEAN :
        IF ok
        THEN /\ nwpc' = [nwpc EXCEPT ![n] = "status"]
             /\ UNCHANGED <<nwresult, nwfailed, ds>>
        ELSE /\ nwresult' = [nwresult EXCEPT ![n] = "Err"]
             /\ nwfailed' = [nwfailed EXCEPT ![n] = TRUE]
             /\ nwpc' = [nwpc EXCEPT ![n] = "idle"]
             /\ ds' = [ds EXCEPT ![n] = None]
    /\ UNCHANGED <<nwspec, nwstatus, panicked>>

\* ctx.recorder.publish(DaemonSetCreated).await.map_err(..)?
NwPublish(n) ==
    /\ ~panicked
    /\ nwpc[n] = "event"
    /\ dsdata' = [dsdata EXCEPT ![n] = None]
    /\ \E ok \in BOOLEAN :
        IF ok
        THEN /\ nwpc' = [nwpc EXCEPT ![n] = "status"]
             /\ UNCHANGED <<nwresult, nwfailed>>
        ELSE /\ nwresult' = [nwresult EXCEPT ![n] = "Err"]
             /\ nwfailed' = [nwfailed EXCEPT ![n] = TRUE]
             /\ nwpc' = [nwpc EXCEPT ![n] = "idle"]
    /\ UNCHANGED <<nwspec, ds, nwstatus, panicked>>

\* api_nw.patch_status(name, serverside, Patch::Merge({status: {dsCreated: true}}))
\* .await.map_err(..)?; Ok(Action::await_change()).
NwPatchStatus(n) ==
    /\ ~panicked
    /\ nwpc[n] = "status"
    /\ nwpc' = [nwpc EXCEPT ![n] = "idle"]
    /\ \E ok \in BOOLEAN :
        IF ok
        THEN /\ nwstatus' = [nwstatus EXCEPT ![n] = Some([ds_created |-> Some(TRUE)])]
             /\ nwresult' = [nwresult EXCEPT ![n] = "Ok"]
             /\ UNCHANGED nwfailed
        ELSE /\ nwresult' = [nwresult EXCEPT ![n] = "Err"]
             /\ nwfailed' = [nwfailed EXCEPT ![n] = TRUE]
             /\ UNCHANGED nwstatus
    /\ UNCHANGED <<nwspec, dsdata, ds, panicked>>

\* A cleanup that also deletes the Network's workload from the store.
NwCleanupDeleting(n) ==
    /\ ~panicked
    /\ nwphase[n] = "Deleting"
    /\ nwpc[n] = "idle"
    /\ nwop' = [nwop EXCEPT ![n] = "cleanup"]
    /\ ds' = [ds EXCEPT ![n] = None]
    /\ nwresult' = [nwresult EXCEPT ![n] = "Ok"]
    /\ nwpc' = [nwpc EXCEPT ![n] = "unmark"]
    /\ nwfailed' = [nwfailed EXCEPT ![n] = FALSE]
    /\ UNCHANGED <<nwspec, dsdata, nwstatus, panicked, nwphase>>

\* ------------------------------------------------ create_owned_router

NETWORK_LABEL_KEY == "network.named-data.net/name"

\* labels.extend(more): the entries of more are added to labels and replace
\* those with the same key.
extend(lbls, more) ==
    [k \in DOMAIN lbls \cup DOMAIN more |-> IF k \in DOMAIN more THEN more[k] ELSE lbls[k]]

\* A builder in which a label inherited from the Network wins over the
\* network label.
create_owned_router_inheriting(source, name, node_name, ip4, ip6, udp_unicast_port) ==
    [name |-> name,
     namespace |-> source.namespace,
     owner_references |-> <<controller_owner_ref(source.name)>>,
     labels |-> extend(NETWORK_LABEL_KEY :> source.name, source.labels),
     annotations |-> source.annotations,
     spec |-> [prefix |-> source.prefix,
               node |-> node_name,
               faces |-> RouterFaces(
                   IF ip4 # None THEN Some(<<"udp://", ip4[1], ":", udp_unicast_port>>)
                   ELSE None,
                   None,
                   IF ip6 # None THEN Some(<<"udp://[", ip6[1], "]:", udp_unicast_port>>)
                   ELSE None,
                   None)],
     status |-> Some(RouterStatus(FALSE, {}))]

\* create_owned_router: the Router built for Network source on a node with
\* the given addresses.  format!("udp://{ip4}:{port}") and
\* format!("udp://[{ip6}]:{port}") are kept as the pieces of the string.
create_owned_router(source, name, node_name, ip4, ip6, udp_unicast_port) ==
    [name |-> name,
     namespace |-> source.namespace,
     owner_references |-> <<controller_owner_ref(source.name)>>,
     labels |-> extend(source.labels, NETWORK_LABEL_KEY :> source.name),
     annotations |-> source.annotations,
     spec |-> [prefix |-> source.prefix,
               node |-> node_name,
               faces |-> RouterFaces(
                   IF ip4 # None THEN Some(<<"udp://", ip4[1], ":", udp_unicast_port>>)
                   ELSE None,
                   None,
                   IF ip6 # None THEN Some(<<"udp://[", ip6[1], "]:", udp_unicast_port>>)
                   ELSE None,
                   None)],
     status |-> Some(RouterStatus(FALSE, {}))]

\* The Networks create_owned_router may be given: read from the store, so
\* named and namespaced, with any labels, the network label key among them
\* or not.
SourceLabels ==
    {<<>>, "app" :> 0}
    \cup {NETWORK_LABEL_KEY :> v : v \in Nets}
    \cup {(NETWORK_LABEL_KEY :> v) @@ ("app" :> 0) : v \in Nets}

Sources ==
    {[name |-> n, namespace |-> Some(ns), labels |-> l,
      annotations |-> <<>>, prefix |-> "/ndn"] :
        n \in Nets, ns \in {"default", "ndn"}, l \in SourceLabels}

\* A call of create_owned_router with any arguments.  The function reads
\* nothing but its arguments, so one call is followed.
CreateOwnedRouter ==
    /\ created = None
    /\ \E source \in Sources, name \in Routers,
          ip4 \in {None} \cup {Some(a) : a \in Addr},
          ip6 \in {None} \cup {Some(a) : a \in Addr},
          port \in {UDP_UNICAST_PORT, UDP_UNICAST_PORT + 1} :
        created' = Some([source |-> source, ip4 |-> ip4, ip6 |-> ip6,
                         router |-> create_owned_router(source, name, "node-a",
                                                        ip4, ip6, port)])
    /\ UNCHANGED <<rvars, gvars, nvars, lvars, replay, evfail>>

\* Network::cleanup: publishes the "DeleteRequested" event and returns
\* Ok(Action::await_change()), or Err(KubeError) through `?`.  It calls no
\* api that writes to the store.  After Ok the finalizer marker is to be
\* removed.
NwCleanup(n) ==
    /\ ~panicked
    /\ nwphase[n] = "Deleting"
    /\ nwpc[n] = "idle"
    /\ nwop' = [nwop EXCEPT ![n] = "cleanup"]
    /\ \E ok \in BOOLEAN :
        IF ok
        THEN /\ nwresult' = [nwresult EXCEPT ![n] = "Ok"]
             /\ nwpc' = [nwpc EXCEPT ![n] = "unmark"]
             /\ nwfailed' = [nwfailed EXCEPT ![n] = FALSE]
        ELSE /\ nwresult' = [nwresult EXCEPT ![n] = "Err"]
             /\ nwfailed' = [nwfailed EXCEPT ![n] = TRUE]
             /\ UNCHANGED nwpc
    /\ UNCHANGED <<nwspec, dsdata, ds, nwstatus, panicked, nwphase>>

\* ------------------------------------- finalizer lifecycle of a Network

\* A deletion request for an Active Network, whose finalizer marker is present.
NwDeleteRequest(n) ==
    /\ nwphase[n] = "Active"
    /\ nwphase' = [nwphase EXCEPT ![n] = "Deleting"]
    /\ UNCHANGED <<nvars, nwop>>

\* After cleanup returned Ok the marker is removed and the store erases the
\* Network; a failed removal leaves it Deleting, and cleanup runs again.
NwRemoveFinalizer(n) ==
    /\ ~panicked
    /\ nwpc[n] = "unmark"
    /\ nwpc' = [nwpc EXCEPT ![n] = "idle"]
    /\ \E ok \in BOOLEAN :
        IF ok
        THEN /\ nwphase' = [nwphase EXCEPT ![n] = "Gone"]
             /\ UNCHANGED <<nwresult, nwfailed>>
        ELSE /\ nwresult' = [nwresult EXCEPT ![n] = "Err"]
             /\ nwfailed' = [nwfailed EXCEPT ![n] = TRUE]
             /\ UNCHANGED nwphase
    /\ UNCHANGED <<nwspec, dsdata, ds, nwstatus, panicked, nwop>>

\* ------------------------------------------------- edits by an operator

\* The specs a Network may carry.
NetworkSpecs ==
    {[prefix |-> "/ndn", udp_unicast_port |-> p, node_selector |-> s] :
        p \in {UDP_UNICAST_PORT, UDP_UNICAST_PORT + 1},
        s \in {None, Some([role |-> "edge"])}}


\* An operator replaces the spec (prefix, port, node selector) of a Network
\* that still exists.  A running handler keeps the descriptor it has built.
NwUpdateSpec(n) ==
    /\ nwphase[n] # "Gone"
    /\ \E s \in NetworkSpecs \ {nwspec[n]} :
        nwspec' = [nwspec EXCEPT ![n] = s]
    /\ UNCHANGED <<dsdata, ds, nwstatus, nwpc, nwresult, nwfailed, panicked,
                   nwphase, nwop>>

\* An operator replaces the udp4 address of an Active Router by another one.
\* The handler reads self.spec.faces from the object it was started with, so
\* an edit made while a handler runs acts like one made right after it; the
\* change is an event that awaits its reconcile.
UpdateFaces(self) ==
    /\ phase[self] = "Active"
    /\ pc[self] = "idle"
    /\ \E a \in Addr \ to_btree_set(faces[self]) :
        faces' = [faces EXCEPT ![self] = RouterFaces(Some(a), None, None, None)]
    /\ result' = [result EXCEPT ![self] = "none"]
    /\ UNCHANGED <<labels, status, phase, pc, op, listed, refused>>

\* ------------------------------------------------------ initial states

\* No handler of the round trip has run yet.
NoReplay == [reconcile |-> None, cleanup |-> None, whole |-> None,
             partial |-> FALSE, reconcile_again |-> FALSE, cleanup_again |-> FALSE]

\* The faces a Router of the example scenario carries: its own udp4 address.
OwnFaces(r) == RouterFaces(Some(((r - 1) % MaxAddr) + 1), None, None, None)

\* The status the store may hold for Router r before any handler runs:
\* absent, the one create_owned_router gives, or one left by an earlier
\* writer that recorded every address but r's own.
StatusInputs(r) ==
    {None,
     Some(RouterStatus(FALSE, {})),
     Some(RouterStatus(TRUE, Addr \ to_btree_set(OwnFaces(r))))}

InitRouters ==
    /\ labels \in [Routers -> Nets]
    /\ faces = [r \in Routers |-> OwnFaces(r)]
    /\ status \in {s \in [Routers -> UNION {StatusInputs(r) : r \in Routers}] :
                     \A r \in Routers : s[r] \in StatusInputs(r)}
    /\ phase = [r \in Routers |-> "Active"]
    /\ pc = [r \in Routers |-> "idle"]
    /\ op = [r \in Routers |-> "reconcile"]
    /\ listed = [r \in Routers |-> <<>>]
    /\ refused = [r \in Routers |-> {}]
    /\ result = [r \in Routers |-> "none"]
    /\ status0 = status
    /\ trip = None
    /\ pre = status
    /\ replay = NoReplay
    /\ evfail = [router |-> FALSE, network |-> FALSE]
    /\ created = None

\* One fixed store of Routers, for the behaviours in which only the
\* Network controller runs.
InitRoutersFixed ==
    /\ labels = [r \in Routers |-> 1]
    /\ faces = [r \in Routers |-> OwnFaces(r)]
    /\ status = [r \in Routers |-> None]
    /\ phase = [r \in Routers |-> "Active"]
    /\ pc = [r \in Routers |-> "idle"]
    /\ op = [r \in Routers |-> "reconcile"]
    /\ listed = [r \in Routers |-> <<>>]
    /\ refused = [r \in Routers |-> {}]
    /\ result = [r \in Routers |-> "none"]
    /\ status0 = status
    /\ trip = None
    /\ pre = status
    /\ replay = NoReplay
    /\ evfail = [router |-> FALSE, network |-> FALSE]
    /\ created = None

NetworksIdle ==
    /\ dsdata = [n \in Nets |-> None]
    /\ ds = [n \in Nets |-> None]
    /\ nwstatus = [n \in Nets |-> None]
    /\ nwpc = [n \in Nets |-> "idle"]
    /\ nwresult = [n \in Nets |-> "none"]
    /\ nwfailed = [n \in Nets |-> FALSE]
    /\ panicked = FALSE
    /\ nwphase = [n \in Nets |-> "Active"]
    /\ nwop = [n \in Nets |-> "reconcile"]
    /\ followed = None
    /\ changed = [n \in Nets |-> FALSE]

InitNetworks ==
    /\ nwspec \in [Nets -> NetworkSpecs]
    /\ NetworksIdle

InitNetworksFixed ==
    /\ nwspec = [n \in Nets |-> [prefix |-> "/ndn", udp_unicast_port |-> UDP_UNICAST_PORT,
                                 node_selector |-> None]]
    /\ NetworksIdle

\* ------------------------------------------------------ specifications

\* The Router controller: the handlers of different keys interleave, one
\* handler at a time per key.
Init == InitRouters /\ InitNetworksFixed

Next ==
    \E self \in Routers :
        \/ ReconcileList(self) /\ UNCHANGED <<gvars, nvars, lvars, replay, evfail, created>>
        \/ ReconcileForEach(self) /\ UNCHANGED <<gvars, nvars, lvars, replay, evfail, created>>
        \/ ReconcilePublish(self) /\ UNCHANGED <<gvars, nvars, lvars, replay, evfail, created>>
        \/ DeleteRequest(self) /\ UNCHANGED <<gvars, nvars, lvars, replay, evfail, created>>
        \/ CleanupList(self) /\ UNCHANGED <<gvars, nvars, lvars, replay, evfail, created>>
        \/ CleanupForEach(self) /\ UNCHANGED <<gvars, nvars, lvars, replay, evfail, created>>
        \/ CleanupPublish(self) /\ UNCHANGED <<gvars, nvars, lvars, replay, evfail, created>>
        \/ RemoveFinalizer(self) /\ UNCHANGED <<gvars, nvars, lvars, replay, evfail, created>>

Spec == Init /\ [][Next]_vars

\* The Router controller with a single writer: the first Router to act is
\* the only one that ever acts.  trip records how far its online/offline
\* round trip has come, pre the status of every Router before the online
\* step, and evfail.router that its last step was an event publish that
\* failed.
Stage == IF trip = None THEN "start" ELSE trip[1].stage

Observe(self, stage, before) ==
    /\ IF trip = None THEN TRUE ELSE trip[1].router = self
    /\ trip' = Some([router |-> self, stage |-> stage])
    /\ pre' = before
    /\ evfail' = [evfail EXCEPT !.router = (pc[self] = "publish" /\ result'[self] = "Err")]
    /\ UNCHANGED <<status0, nvars, lvars, created>>

NextRoundTrip ==
    \E self \in Routers :
        \/ ReconcileList(self) /\ Observe(self, Stage, pre) /\ UNCHANGED replay
        \/ ReconcileForEach(self) /\ Observe(self, "online", status) /\ UNCHANGED replay
        \/ ReconcilePublish(self) /\ Observe(self, Stage, pre) /\ UNCHANGED replay
        \/ DeleteRequest(self) /\ Observe(self, Stage, pre) /\ UNCHANGED replay
        \/ CleanupList(self) /\ Observe(self, Stage, pre) /\ UNCHANGED replay
        \/ CleanupForEach(self)
             /\ Observe(self, IF Stage = "online" THEN "offline" ELSE Stage, pre)
             /\ UNCHANGED replay
        \/ CleanupPublish(self) /\ Observe(self, Stage, pre) /\ UNCHANGED replay
        \/ RemoveFinalizer(self) /\ Observe(self, Stage, pre) /\ UNCHANGED replay

SpecRoundTrip == Init /\ [][NextRoundTrip]_vars

\* The single writer replaying its handlers over a store in which an
\* earlier writer recorded neighbors for every Router.  replay keeps the
\* statuses the first for_each pass of each handler left behind and tells
\* whether the handler has made another pass since; whole is what one
\* cleanup pass with every patch accepted makes of the statuses it started
\* from, and partial tells that the first cleanup pass was cut short: the
\* store would have taken only some of its patches.
Ran(self, handler) ==
    replay' =
        IF handler = "reconcile"
        THEN [replay EXCEPT !.reconcile = IF @ = None THEN Some(status') ELSE @,
                            !.reconcile_again = replay.reconcile # None]
        ELSE [replay EXCEPT !.cleanup = IF @ = None THEN Some(status') ELSE @,
                            !.whole = IF @ = None
                                      THEN Some(for_each(status, self, "cleanup",
                                                targets(self), listed[self], {}))
                                      ELSE @,
                            !.partial = IF replay.cleanup = None
                                        THEN refused'[self] # {} ELSE @,
                            !.cleanup_again = replay.cleanup # None]

InitReplay ==
    /\ InitRouters
    /\ InitNetworksFixed
    /\ status = [r \in Routers |->
                    Some(RouterStatus(TRUE, Addr \ to_btree_set(OwnFaces(r))))]

NextReplay ==
    \E self \in Routers :
        \/ ReconcileList(self) /\ Observe(self, Stage, pre) /\ UNCHANGED replay
        \/ ReconcileForEach(self) /\ Observe(self, "online", status)
             /\ Ran(self, "reconcile")
        \/ ReconcilePublish(self) /\ Observe(self, Stage, pre) /\ UNCHANGED replay
        \/ DeleteRequest(self) /\ Observe(self, Stage, pre) /\ UNCHANGED replay
        \/ CleanupList(self) /\ Observe(self, Stage, pre) /\ UNCHANGED replay
        \/ CleanupForEach(self)
             /\ Observe(self, IF Stage = "online" THEN "offline" ELSE Stage, pre)
             /\ Ran(self, "cleanup")
        \/ CleanupPublish(self) /\ Observe(self, Stage, pre) /\ UNCHANGED replay
        \/ RemoveFinalizer(self) /\ Observe(self, Stage, pre) /\ UNCHANGED replay

SpecReplay == InitReplay /\ [][NextReplay]_vars

\* The Network controller.
InitNetwork == InitRoutersFixed /\ InitNetworks

NextNetwork ==
    \E n \in Nets :
        \/ NwGetMyPod(n) /\ UNCHANGED <<rvars, gvars, lvars, replay, evfail, created>>
        \/ NwApply(n) /\ UNCHANGED <<rvars, gvars, lvars, replay, evfail, created>>
        \/ NwPublish(n) /\ UNCHANGED <<rvars, gvars, lvars, replay, evfail, created>>
        \/ NwPatchStatus(n) /\ UNCHANGED <<rvars, gvars, lvars, replay, evfail, created>>

SpecNetwork == InitNetwork /\ [][NextNetwork]_vars

\* The Router controller over a store in which no status is recorded yet,
\* with operators editing the faces of Routers.
InitChange == InitRouters /\ InitNetworksFixed /\ status = [r \in Routers |-> None]

NextChange ==
    \/ Next
    \/ \E self \in Routers : UpdateFaces(self) /\ UNCHANGED <<gvars, nvars, lvars, replay, evfail, created>>

SpecChange == InitChange /\ [][NextChange]_vars

\* The Router controller with a single writer over a store in which
\* Router 1 carries any face record: each of its four slots is absent or
\* holds an address.  The statuses are those create_owned_router gives, or
\* those an earlier writer left.
FaceInputs ==
    {RouterFaces(u4, t4, u6, t6) :
        u4 \in {None} \cup {Some(a) : a \in Addr},
        t4 \in {None} \cup {Some(a) : a \in Addr},
        u6 \in {None} \cup {Some(a) : a \in Addr},
        t6 \in {None} \cup {Some(a) : a \in Addr}}

InitFaces ==
    /\ labels = [r \in Routers |-> 1]
    /\ \E f \in FaceInputs :
         faces = [r \in Routers |-> IF r = 1 THEN f ELSE OwnFaces(r)]
    /\ status \in {[r \in Routers |-> Some(RouterStatus(FALSE, {}))],
                   [r \in Routers |->
                       Some(RouterStatus(TRUE, Addr \ to_btree_set(OwnFaces(r))))]}
    /\ phase = [r \in Routers |-> "Active"]
    /\ pc = [r \in Routers |-> "idle"]
    /\ op = [r \in Routers |-> "reconcile"]
    /\ listed = [r \in Routers |-> <<>>]
    /\ refused = [r \in Routers |-> {}]
    /\ result = [r \in Routers |-> "none"]
    /\ status0 = status
    /\ trip = None
    /\ pre = status
    /\ replay = NoReplay
    /\ evfail = [router |-> FALSE, network |-> FALSE]
    /\ created = None
    /\ InitNetworksFixed

SpecFaces == InitFaces /\ [][NextRoundTrip]_vars

\* The life of one Network, from creation to erasure: the first Network to
\* be acted on is the one followed.  Reconcile starts only while the Network
\* is Active, cleanup only once its deletion is requested.  changed[n]
\* records that an apply replaced a stored workload by one generated from
\* another port or node selector, and evfail.network that the last step was
\* an event publish that failed.
Follow(n) ==
    /\ IF followed = None THEN TRUE ELSE followed[1] = n
    /\ followed' = Some(n)
    /\ evfail' = [evfail EXCEPT !.network = (nwpc[n] = "event" /\ nwpc'[n] = "idle")]
    /\ UNCHANGED <<rvars, gvars, replay, created>>

NetworkLife ==
    \E n \in Nets :
        \/ /\ nwphase[n] = "Active"
           /\ NwGetMyPod(n)
           /\ nwop' = [nwop EXCEPT ![n] = "reconcile"]
           /\ Follow(n) /\ UNCHANGED <<nwphase, changed>>
        \/ /\ NwApply(n)
           /\ changed' = [changed EXCEPT ![n] =
                   @ \/ (/\ ds[n] # None
                         /\ \/ ds'[n][1].port # ds[n][1].port
                            \/ ds'[n][1].node_selector # ds[n][1].node_selector)]
           /\ Follow(n) /\ UNCHANGED <<nwphase, nwop>>
        \/ NwPublish(n) /\ Follow(n) /\ UNCHANGED <<nwphase, nwop, changed>>
        \/ NwPatchStatus(n) /\ Follow(n) /\ UNCHANGED <<nwphase, nwop, changed>>
        \/ NwDeleteRequest(n) /\ Follow(n) /\ UNCHANGED changed
        \/ NwCleanup(n) /\ Follow(n) /\ UNCHANGED changed
        \/ NwRemoveFinalizer(n) /\ Follow(n) /\ UNCHANGED changed

\* The Network controller over the whole life of a Network whose spec an
\* operator may edit at any time.
NextNetworkLife ==
    \/ NetworkLife
    \/ \E n \in Nets : NwUpdateSpec(n) /\ Follow(n) /\ UNCHANGED changed

SpecNetworkLife == InitNetwork /\ [][NextNetworkLife]_vars

\* Both controllers, each following one object from Active to Gone.
InitLifecycle == InitRoutersFixed /\ InitNetworksFixed

NextLifecycle == NextRoundTrip \/ NetworkLife

SpecLifecycle == InitLifecycle /\ [][NextLifecycle]_vars

\* Routers being built for the nodes of a Network.
SpecCreate == InitLifecycle /\ [][CreateOwnedRouter]_vars

\* ------------------------------------------------------ the claims

\* status.neighbors of r as the store holds it (empty when the status is absent).
neighbors(r) == current_neighbors(status[r])

\* r's effective face set.
effective(r) == to_btree_set(faces[r])

\* The store began with no neighbor recorded for r.
Fresh(r) == current_neighbors(status0[r]) = {}

\* Router::reconcile(r) has run to completion and returned Ok, and r is
\* still Active with no handler running.
Reconciled(r) ==
    phase[r] = "Active" /\ pc[r] = "idle" /\ op[r] = "reconcile" /\ result[r] = "Ok"

\* Router::cleanup(r) has returned Ok.
CleanedUp(r) ==
    /\ op[r] = "cleanup" /\ result[r] = "Ok"
    /\ pc[r] = "unmark" \/ (pc[r] = "idle" /\ phase[r] = "Gone")

\* No handler has run for key r, and no deletion was requested.
Untouched(r) == phase[r] = "Active" /\ pc[r] = "idle" /\ result[r] = "none"

\* The Routers of r's Network other than r that are online: Active and
\* sharing r's network label.
OnlineSiblings(r) ==
    {s \in Routers \ {r} : phase[s] = "Active" /\ labels[s] = labels[r]}

\* Every online event has been reconciled, every offline event cleaned up,
\* and no handler is running or pending.
Quiescent == \A r \in Routers : Reconciled(r) \/ (pc[r] = "idle" /\ phase[r] = "Gone")

\* C1: convergence.  From a store without recorded neighbors, once every
\* Router event has been reconciled and nothing is pending, the neighbors
\* of every online Router are the union of the effective face sets of the
\* other online Routers of its Network.
C1_Convergence ==
    ((\A r \in Routers : Fresh(r)) /\ Quiescent)
        => \A r \in Routers :
              phase[r] = "Active"
                 => neighbors(r) = UNION {effective(s) : s \in OnlineSiblings(r)}

\* C2: two Routers a and b with the same network label, each reconciled
\* once to completion with no other writer, are both online and hold each
\* other's effective faces as neighbors.
C2_PairReconciled ==
    \A a \in Routers : \A b \in Routers \ {a} :
        (/\ labels[a] = labels[b]
         /\ Fresh(a) /\ Fresh(b)
         /\ Reconciled(a) /\ Reconciled(b)
         /\ \A c \in Routers \ {a, b} : Untouched(c))
            => /\ status[a] = Some(RouterStatus(TRUE, effective(b)))
               /\ status[b] = Some(RouterStatus(TRUE, effective(a)))

\* C3: after Router::cleanup(a) returned Ok with no other writer, no
\* sibling sharing a's network label holds an effective face address of a
\* among its neighbors.
C3_CleanupRemovesFaces ==
    \A a \in Routers :
        (CleanedUp(a) /\ \A c \in Routers \ {a} : Untouched(c))
            => \A b \in Routers \ {a} :
                  labels[b] = labels[a] => neighbors(b) \cap effective(a) = {}

\* C4: when Routers a and b of one Network have both been reconciled, in
\* whatever interleaving, every third sibling c of that Network holds the
\* effective faces of both among its neighbors.
C4_NoLostUpdate ==
    \A a \in Routers : \A b \in Routers \ {a} : \A c \in Routers \ {a, b} :
        (/\ labels[a] = labels[c] /\ labels[b] = labels[c]
         /\ Reconciled(a) /\ Reconciled(b)
         /\ phase[c] = "Active")
            => (effective(a) \cup effective(b)) \subseteq neighbors(c)

\* An address that belongs to the effective face set of b and of no other Router.
OnlyOf(b, x) == x \in effective(b) /\ \A r \in Routers \ {b} : x \notin effective(r)

\* C5: once Router::cleanup(b) and Router::reconcile(a) of another Router
\* of the same Network have both completed, in whatever interleaving, and
\* b is gone, no remaining Router of that Network holds an address that
\* belongs only to b's effective face set.
C5_DeletedStaysDeleted ==
    \A a \in Routers : \A b \in Routers \ {a} :
        (/\ labels[a] = labels[b]
         /\ Reconciled(a)
         /\ CleanedUp(b) /\ phase[b] = "Gone")
            => \A c \in Routers \ {b} :
                  (phase[c] # "Gone" /\ labels[c] = labels[b])
                     => \A x \in neighbors(c) : ~OnlyOf(b, x)

Document(a, c) ==
    IF op[a] = "reconcile" THEN reconcile_status(a, listed[a][c])
    ELSE cleanup_status(a, listed[a][c])

\* C7: isolation.  When the propagation of a has gone over its siblings
\* and the patch of sibling b was refused, every other eligible sibling c
\* holds the status computed for it.
C7_Isolation ==
    \A a \in Routers :
        pc[a] = "publish"
            => \A b \in refused[a] : \A c \in targets(a) \ refused[a] :
                  status[c] = Some(Document(a, c))

\* C8: sibling selection.  The Routers a handler of a builds a patch for
\* are Routers carrying a's own network label value, and no Active Router
\* carrying it, other than a, is left out.
C8_SiblingSelection ==
    \A a \in Routers :
        pc[a] \in {"listed", "publish"}
            => /\ \A r \in targets(a) : labels[r] = labels[a]
               /\ \A r \in Routers \ {a} :
                     (phase[r] = "Active" /\ labels[r] = labels[a]) => r \in targets(a)

\* C9: store errors are propagated.  A Network::reconcile in which a store
\* call failed has returned Err: it has not returned Ok, and the process
\* has not panicked.
C9_StoreErrorsPropagated ==
    \A n \in Nets :
        nwfailed[n] => (nwresult[n] = "Err" /\ ~panicked)

\* C10: per-sibling failure accounting.  A handler of a whose propagation
\* had at least one eligible sibling, the patch of every one of them
\* refused, returns Err.
C10_AllSiblingsFailed ==
    [][\A a \in Routers :
          (/\ pc[a] = "publish" /\ pc'[a] # "publish"
           /\ targets(a) # {} /\ refused[a] = targets(a))
             => result'[a] = "Err"]_vars

\* C11: an object (Router or Network) whose deletion was requested is erased
\* only by a step that follows a cleanup of that object which returned Ok;
\* while a cleanup's last answer is Err the object is still Deleting with
\* its marker, and no handler holds its key, so that cleanup can run again.
C11_FinalizerOrdering ==
    /\ [](/\ \A r \in Routers :
               (op[r] = "cleanup" /\ result[r] = "Err")
                   => (phase[r] = "Deleting" /\ pc[r] = "idle")
          /\ \A n \in Nets :
               (nwop[n] = "cleanup" /\ nwresult[n] = "Err")
                   => (nwphase[n] = "Deleting" /\ nwpc[n] = "idle"))
    /\ [][/\ \A r \in Routers :
               (phase[r] # "Gone" /\ phase'[r] = "Gone")
                   => (phase[r] = "Deleting" /\ op[r] = "cleanup" /\ result[r] = "Ok")
          /\ \A n \in Nets :
               (nwphase[n] # "Gone" /\ nwphase'[n] = "Gone")
                   => (nwphase[n] = "Deleting" /\ nwop[n] = "cleanup"
                         /\ nwresult[n] = "Ok")]_vars

\* A Router and a Network have both been erased after a successful cleanup.
C11_Witness ==
    /\ \E r \in Routers :
         phase[r] = "Gone" /\ op[r] = "cleanup" /\ result[r] = "Ok"
    /\ \E n \in Nets :
         nwphase[n] = "Gone" /\ nwop[n] = "cleanup" /\ nwresult[n] = "Ok"

\* C12: with no other writer, from the first pass of Router::cleanup(A) on
\* every later pass leaves the status of every Router as the first pass left
\* it; and when the first pass was cut short, a later pass that runs to
\* completion ends with the statuses one uninterrupted pass would have left.
C12_CleanupIdempotent ==
    replay.cleanup # None =>
        /\ status = replay.cleanup[1]
        /\ \A self \in Routers :
             (/\ replay.partial
              /\ op[self] = "cleanup" /\ pc[self] = "publish"
              /\ refused[self] = {})
                 => status = replay.whole[1]

\* Cleanup has run again to completion over listed siblings with recorded
\* neighbors after a first pass that was cut short.
C12_Witness ==
    /\ replay.cleanup_again
    /\ replay.partial
    /\ \E self \in Routers :
         /\ op[self] = "cleanup" /\ pc[self] = "publish"
         /\ refused[self] = {}
         /\ \E b \in targets(self) : neighbors(b) # {}

\* C13: with no other writer and A's spec unchanged, every replay of
\* Router::reconcile(A) leaves the status (online, neighbors) of every Router
\* as the first run left it: no address is added, duplicated or lost.
C13_ReconcileIdempotent ==
    (replay.reconcile # None /\ replay.cleanup = None) =>
        status = replay.reconcile[1]

\* Reconcile has been replayed over listed siblings with recorded neighbors.
C13_Witness ==
    /\ replay.reconcile_again
    /\ replay.cleanup = None
    /\ \E self \in Routers :
         /\ op[self] = "reconcile" /\ pc[self] = "publish"
         /\ \E b \in targets(self) : neighbors(b) # {}

\* C14: the quiescent neighbor invariant under spec changes.  Once the faces
\* of some Router have been changed and every event, that change included,
\* has been reconciled with nothing pending, the neighbors of every online
\* Router are the union of the current effective face sets of the other
\* online Routers of its Network, so they hold no address that only an
\* earlier face set of a sibling had.
C14_QuiescentAfterChange ==
    ((\E a \in Routers : phase[a] = "Active" /\ faces[a] # OwnFaces(a)) /\ Quiescent)
        => \A r \in Routers :
              phase[r] = "Active"
                 => neighbors(r) = UNION {effective(s) : s \in OnlineSiblings(r)}

\* C15: the online flag of a sibling follows the direction of the call.
\* The step in which the handler of a goes over its siblings leaves every
\* sibling whose patch the store takes with online = TRUE when the handler
\* is Router::reconcile and with online = FALSE when it is Router::cleanup.
C15_OnlineFollowsCall ==
    [][\A a \in Routers :
          (pc[a] = "listed" /\ pc'[a] = "publish")
              => \A c \in targets(a) \ refused'[a] :
                    /\ status'[c] # None
                    /\ status'[c][1].online = (op[a] = "reconcile")]_vars

\* The status of Network n carries dsCreated = true.
ds_created(n) == nwstatus[n] # None /\ nwstatus[n][1].ds_created = Some(TRUE)

\* C16: Network::reconcile looks up its pod, applies the workload, emits
\* the event and only then patches its own status.  So a Network whose
\* status flag is true has a stored Workload named after it, a reconcile
\* that returned Ok has left the flag true, and the flag is written only by
\* the last step of a reconcile, after the event.
C16_FlagAfterApply ==
    /\ [](\A n \in Nets :
            /\ ds_created(n) => (ds[n] # None /\ ds[n][1].name = n)
            /\ (nwop[n] = "reconcile" /\ nwresult[n] = "Ok") => ds_created(n))
    /\ [][\A n \in Nets :
            nwstatus'[n] # nwstatus[n]
                => (nwop[n] = "reconcile" /\ nwpc[n] = "status" /\ ds[n] # None)]_vars

\* A reconcile has run to its end and returned Ok.
C16_Witness ==
    \E n \in Nets :
        /\ nwop[n] = "reconcile" /\ nwresult[n] = "Ok" /\ nwpc[n] = "idle"
        /\ ds_created(n) /\ ds[n] # None

\* C17: the controller never deletes a Workload.  No step removes a stored
\* Workload; a step taken for a Network that is Deleting and has no handler
\* running (its cleanup) changes no Workload, no Network status and no
\* Router status; and every stored Workload carries exactly one owner
\* reference, which names its Network as controller-owner.
C17_NeverDeletesWorkload ==
    /\ [](\A n \in Nets :
            ds[n] # None
                => /\ Len(ds[n][1].owner_references) = 1
                   /\ ds[n][1].owner_references[1].kind = "Network"
                   /\ ds[n][1].owner_references[1].name = n
                   /\ ds[n][1].owner_references[1].controller)
    /\ [][\A n \in Nets :
            /\ ds[n] # None => ds'[n] # None
            /\ (nwphase[n] = "Deleting" /\ nwpc[n] = "idle")
                  => (ds' = ds /\ nwstatus' = nwstatus /\ status' = status)]_vars

\* A Network has been cleaned up and erased, and its Workload is still stored.
C17_Witness ==
    \E n \in Nets :
        /\ nwphase[n] = "Gone"
        /\ nwop[n] = "cleanup" /\ nwresult[n] = "Ok"
        /\ ds[n] # None

\* C19: selector stability.  The labels of a stored Workload, the labels
\* of its pod template and its match-selector are one map, {network: name
\* of its Network}; and whatever the operator changes in the Network's spec
\* and however often it is reconciled, no step changes the selector of a
\* Workload that is stored.
C19_SelectorStable ==
    /\ [](\A n \in Nets :
            ds[n] # None
                => /\ ds[n][1].selector = [network |-> n]
                   /\ ds[n][1].labels = ds[n][1].selector
                   /\ ds[n][1].template_labels = ds[n][1].selector)
    /\ [][\A n \in Nets :
            ds[n] # None
                => (ds'[n] # None /\ ds'[n][1].selector = ds[n][1].selector)]_vars

\* A stored Workload has been replaced by one generated from a changed spec.
C19_Witness ==
    \E n \in Nets :
        /\ changed[n]
        /\ ds[n] # None
        /\ ds[n][1].port = nwspec[n].udp_unicast_port
        /\ ds[n][1].node_selector = nwspec[n].node_selector

\* Two descriptors were generated from the same port, node selector, image
\* and service account.
SameInputs(d, e) ==
    /\ d.port = e.port
    /\ d.node_selector = e.node_selector
    /\ d.init_image = e.init_image
    /\ d.service_account_name = e.service_account_name

\* C18: generator determinism.  When a reconcile of Network n applies a
\* descriptor generated from the inputs the stored Workload was generated
\* from, the descriptor is the stored one: the apply leaves the stored
\* Workload as it is.
C18_ReapplyNoOp ==
    [][\A n \in Nets :
          (/\ nwpc[n] = "apply" /\ nwpc'[n] = "event"
           /\ ds[n] # None
           /\ SameInputs(ds[n][1], dsdata[n][1]))
              => (dsdata[n] = ds[n] /\ ds'[n] = ds[n])]_vars

\* After a completed reconcile, a second one has generated its descriptor
\* from the same inputs and is about to apply it.
C18_Witness ==
    \E n \in Nets :
        /\ nwpc[n] = "apply"
        /\ ds_created(n)
        /\ ds[n] # None /\ dsdata[n] # None
        /\ SameInputs(ds[n][1], dsdata[n][1])

\* The four slots of a face record.
slots(f) == {f.udp4, f.tcp4, f.udp6, f.tcp6}

\* C20: face-set derivation.  The effective face set of a Router has at
\* most 4 elements and none when all four slots are empty; it contains the
\* address of every slot that is not empty, and nothing else: every
\* element is the address some slot holds.
C20_FaceSetDerivation ==
    \A r \in Routers :
        LET f == faces[r]
            s == to_btree_set(f)
        IN /\ Cardinality(s) <= 4
           /\ (\A o \in slots(f) : o = None) => Cardinality(s) = 0
           /\ \A o \in slots(f) : o # None => o[1] \in s
           /\ \A a \in s : Some(a) \in slots(f)

\* A handler of a Router with udp4 and tcp6 holding different addresses and
\* an empty tcp4 has gone over its siblings.
C20_Witness ==
    \E self \in Routers :
        /\ pc[self] = "publish"
        /\ targets(self) # {}
        /\ faces[self].udp4 # None /\ faces[self].tcp6 # None
        /\ faces[self].udp4 # faces[self].tcp6
        /\ faces[self].tcp4 = None
        /\ Cardinality(effective(self)) = 2

\* C21: the zero-face edge case.  When the handler (reconcile or cleanup)
\* of a Router with an empty effective face set has gone over its siblings,
\* it has met no error, the document it built for each sibling carries the
\* neighbors the sibling had at the start of the call, and the store holds
\* those neighbors still.
C21_ZeroFaces ==
    \A a \in Routers :
        (pc[a] = "publish" /\ effective(a) = {})
            => /\ result[a] = "none"
               /\ \A c \in targets(a) :
                    /\ Document(a, c).neighbors = current_neighbors(listed[a][c])
                    /\ neighbors(c) = current_neighbors(listed[a][c])

\* Cleanup of a Router without faces has gone over siblings that hold
\* neighbors, after its reconcile had returned.
C21_Witness ==
    \E a \in Routers :
        /\ pc[a] = "publish" /\ op[a] = "cleanup"
        /\ effective(a) = {}
        /\ \E c \in targets(a) : neighbors(c) # {}

\* C22: the frame of the Router handlers.  No step of the controller
\* changes the spec or the labels of a Router, a Network's spec or status,
\* or a Workload; and the step in which the handler of a goes over its
\* siblings leaves a's own status and the status of every Router that
\* carries another network label than a as they were.
C22_Frame ==
    [][/\ faces' = faces /\ labels' = labels
       /\ nwspec' = nwspec /\ nwstatus' = nwstatus /\ ds' = ds
       /\ \A a \in Routers :
            (pc[a] = "listed" /\ pc'[a] = "publish")
                => /\ status'[a] = status[a]
                   /\ \A r \in Routers :
                        labels[r] # labels[a] => status'[r] = status[r]]_vars

\* The handler of a Router has gone over listed siblings while a Router
\* with another network label holds a status.
C22_Witness ==
    \E a \in Routers :
        /\ pc[a] = "publish"
        /\ targets(a) # {}
        /\ status[a] # None
        /\ \E r \in Routers : labels[r] # labels[a] /\ neighbors(r) # {}

\* C23: a failed event publish.  The step in which the "created" event of
\* Network::reconcile(n) fails returns Err, leaves the status flag and the
\* applied Workload as they were, and leaves n with no handler running, so
\* that a replay can set the flag; the step in which the event of a Router
\* handler fails returns Err and leaves every Router status as it was.
C23_EventFailure ==
    /\ [](\A n \in Nets :
            (evfail.network /\ followed = Some(n))
                => /\ nwresult[n] = "Err" /\ nwpc[n] = "idle"
                   /\ ds[n] # None /\ ds[n][1].name = n)
    /\ [][/\ \A n \in Nets :
              (nwpc[n] = "event" /\ nwpc'[n] = "idle")
                  => (nwresult'[n] = "Err" /\ nwstatus' = nwstatus /\ ds' = ds)
          /\ \A a \in Routers :
              (pc[a] = "publish" /\ result'[a] = "Err")
                  => (status' = status /\ pc'[a] = "idle")]_vars

\* The first reconcile of a Network has applied the Workload and failed on
\* its event, and a Router handler has failed on its event.
C23_Witness ==
    /\ evfail.network /\ evfail.router
    /\ \E n \in Nets :
         /\ followed = Some(n)
         /\ nwop[n] = "reconcile" /\ nwresult[n] = "Err"
         /\ ds[n] # None /\ ~ds_created(n)

\* C24: the Router create_owned_router builds for Network N carries the
\* network label with N's name, whatever N's own labels hold under that
\* key, N's namespace and one owner reference naming N as controller; its
\* status is online = FALSE with no neighbors; udp4 and udp6 are present
\* exactly when the IPv4 and the IPv6 address were given, tcp4 and tcp6
\* are absent, and the effective face set has at most 2 elements.
C24_OwnedRouter ==
    created # None =>
        LET c == created[1]
            r == c.router
            f == r.spec.faces
        IN /\ NETWORK_LABEL_KEY \in DOMAIN r.labels
           /\ r.labels[NETWORK_LABEL_KEY] = c.source.name
           /\ r.namespace = c.source.namespace
           /\ Len(r.owner_references) = 1
           /\ r.owner_references[1].kind = "Network"
           /\ r.owner_references[1].name = c.source.name
           /\ r.owner_references[1].controller
           /\ r.status = Some([online |-> FALSE, neighbors |-> {}])
           /\ (f.udp4 # None) <=> (c.ip4 # None)
           /\ (f.udp6 # None) <=> (c.ip6 # None)
           /\ f.tcp4 = None /\ f.tcp6 = None
           /\ Cardinality(to_btree_set(f)) <= 2

\* A Router was built with both addresses for a Network whose own labels
\* hold another value under the network label key.
C24_Witness ==
    /\ created # None
    /\ NETWORK_LABEL_KEY \in DOMAIN created[1].source.labels
    /\ created[1].source.labels[NETWORK_LABEL_KEY] # created[1].source.name
    /\ created[1].ip4 # None /\ created[1].ip6 # None
    /\ Cardinality(to_btree_set(created[1].router.spec.faces)) = 2

=============================================================================
